---- MODULE Spec2Model ----
(***************************************************************************)
(* Voice-to-Claude-CLI: platform detection / tool selection                *)
(* (src/src/platform_detect.py) and the interactive transcription loop     *)
(* (src/src/voice_to_claude.py).                                           *)
(*                                                                         *)
(* Python str values that the code converts or inspects (environment       *)
(* values, os-release lines) are sequences of one-character strings, so    *)
(* that lower(), strip(), split() and `in` are computed, not assumed.      *)
(* Text handed to the clipboard / keyboard tools is a sequence of Unicode  *)
(* code points; bytes are sequences of 0..255.                             *)
(***************************************************************************)
EXTENDS Naturals, Sequences, FiniteSets

VARIABLES
    environ,         \* os.environ: a function from the names that are set to their values
    PATH,            \* the command names shutil.which / exec can resolve
    os_release,      \* /etc/os-release: <<>> when the file is missing, else <<lines>>
    _platform_info,  \* the module global: <<>> for None, else <<the PlatformInfo>>
    first_info,      \* history: <<>> or <<the first PlatformInfo ever constructed>>
    edits,           \* history: how many times the environment / PATH changed
    last,            \* the last platform_detect call: its name, arguments and result,
                     \* and (history) the value of `edits` when it was made
    procs,           \* the subprocess.run calls the last platform_detect call made
    pc,              \* run_interactive: where the interactive loop is
    user_input,      \* run_interactive: what input() returned last, already strip()ped
    message,         \* run_interactive: what transcribe_audio returned last
    http,            \* the requests.post calls of this pass of the loop
    transcribed,     \* the result of this pass's transcribe_audio call
    printed,         \* run_interactive: what the last pass of the loop printed
    rounds,          \* history: completed passes of the while loop
    ended_by         \* history: why the loop ended ("" while it runs)

platform_vars == <<environ, PATH, os_release, _platform_info, first_info, edits, last, procs>>
loop_vars == <<pc, user_input, message, http, transcribed, printed, rounds, ended_by>>
vars == <<environ, PATH, os_release, _platform_info, first_info, edits, last, procs,
          pc, user_input, message, http, transcribed, printed, rounds, ended_by>>

(***************************************************************************)
(* Bounds of the model.                                                    *)
(***************************************************************************)
MaxTextLen == 1     \* longest text handed to copy_to_clipboard / type_text
MaxEdits == 1       \* environment / PATH changes in one behaviour
MaxRounds == 3      \* passes of the interactive loop that are counted

(***************************************************************************)
(* Python str operations on sequences of characters.                       *)
(***************************************************************************)
None == "None"

Range(s) == {s[i] : i \in 1..Len(s)}

UpperCase == <<"A","B","C","D","E","F","G","H","I","J","K","L","M",
               "N","O","P","Q","R","S","T","U","V","W","X","Y","Z">>
LowerCase == <<"a","b","c","d","e","f","g","h","i","j","k","l","m",
               "n","o","p","q","r","s","t","u","v","w","x","y","z">>

\* str.lower() on one character
lower_char(c) ==
    IF \E i \in 1..26 : UpperCase[i] = c
    THEN LowerCase[CHOOSE i \in 1..26 : UpperCase[i] = c]
    ELSE c

\* str.lower()
lower(s) == [i \in 1..Len(s) |-> lower_char(s[i])]

\* `sub in s` for str
contains(sub, s) ==
    \E i \in 0..Len(s) :
        /\ i + Len(sub) <= Len(s)
        /\ \A j \in 1..Len(sub) : s[i + j] = sub[j]

\* str.startswith
startswith(s, prefix) ==
    /\ Len(prefix) <= Len(s)
    /\ \A j \in 1..Len(prefix) : s[j] = prefix[j]

Whitespace == {" ", "\n", "\t", "\r"}

RECURSIVE lstrip(_, _)
lstrip(s, chars) ==
    IF s # <<>> /\ Head(s) \in chars THEN lstrip(Tail(s), chars) ELSE s

RECURSIVE rstrip(_, _)
rstrip(s, chars) ==
    IF s # <<>> /\ s[Len(s)] \in chars THEN rstrip(SubSeq(s, 1, Len(s) - 1), chars) ELSE s

\* str.strip() / str.strip(chars)
strip(s, chars) == rstrip(lstrip(s, chars), chars)

\* str.split(sep) for a one-character separator
RECURSIVE split(_, _)
split(s, sep) ==
    IF \E i \in 1..Len(s) : s[i] = sep
    THEN LET i == CHOOSE k \in 1..Len(s) : s[k] = sep /\ \A j \in 1..(k - 1) : s[j] # sep
         IN  <<SubSeq(s, 1, i - 1)>> \o split(SubSeq(s, i + 1, Len(s)), sep)
    ELSE <<s>>

(***************************************************************************)
(* String literals of the source.                                          *)
(***************************************************************************)
s_wayland == <<"w","a","y","l","a","n","d">>
s_x11 == <<"x","1","1">>
s_unknown == <<"u","n","k","n","o","w","n">>
s_kde == <<"k","d","e">>
s_gnome == <<"g","n","o","m","e">>
s_KDE == <<"K","D","E">>
s_GNOME == <<"G","N","O","M","E">>
s_ID_eq == <<"I","D","=">>
s_arch == <<"a","r","c","h">>
s_manjaro == <<"m","a","n","j","a","r","o">>
s_cachyos == <<"c","a","c","h","y","o","s">>
s_ubuntu == <<"u","b","u","n","t","u">>
s_debian == <<"d","e","b","i","a","n">>
s_pop == <<"p","o","p">>
s_mint == <<"m","i","n","t">>
s_fedora == <<"f","e","d","o","r","a">>
s_rhel == <<"r","h","e","l">>
s_centos == <<"c","e","n","t","o","s">>
s_opensuse == <<"o","p","e","n","s","u","s","e">>
s_sles == <<"s","l","e","s">>

(***************************************************************************)
(* Environment probing: PlatformInfo.__init__ and its helpers.             *)
(***************************************************************************)
\* os.environ.get(name, ''); os.environ.get(name) is used only for its truth
\* value, and None and '' are both false
environ_get(env, name) == IF name \in DOMAIN env THEN env[name] ELSE <<>>

\* Python truth value of a str
truthy(s) == s # <<>>

\* a plausible slip: the X11 display variable probed before the Wayland one
_detect_display_server_x11_first(env) ==
    LET session_type == lower(environ_get(env, "XDG_SESSION_TYPE")) IN
    IF session_type \in {s_wayland, s_x11} THEN session_type
    ELSE IF truthy(environ_get(env, "DISPLAY")) THEN s_x11
    ELSE IF truthy(environ_get(env, "WAYLAND_DISPLAY")) THEN s_wayland
    ELSE s_unknown

_detect_display_server(env) ==
    LET session_type == lower(environ_get(env, "XDG_SESSION_TYPE")) IN
    IF session_type \in {s_wayland, s_x11} THEN session_type
    ELSE IF truthy(environ_get(env, "WAYLAND_DISPLAY")) THEN s_wayland
    ELSE IF truthy(environ_get(env, "DISPLAY")) THEN s_x11
    ELSE s_unknown

_detect_desktop_environment(env) ==
    LET desktop == environ_get(env, "XDG_CURRENT_DESKTOP")
        session == environ_get(env, "DESKTOP_SESSION")
    IN  IF truthy(desktop) THEN desktop
        ELSE IF truthy(session) THEN session
        ELSE IF truthy(environ_get(env, "KDE_FULL_SESSION")) THEN s_KDE
        ELSE IF truthy(environ_get(env, "GNOME_DESKTOP_SESSION_ID")) THEN s_GNOME
        ELSE s_unknown

\* shutil.which(cmd) is not None
_has_command(path, cmd) == cmd \in path

\* list.append under a condition
append_if(list, cond, item) == IF cond THEN Append(list, item) ELSE list

\* a plausible slip: one half of the Wayland pair is taken for the pair
_detect_available_tools_either_half(path) ==
    [clipboard |->
        append_if(
            append_if(
                append_if(<<>>,
                    _has_command(path, "wl-copy") \/ _has_command(path, "wl-paste"),
                    "wl-clipboard"),
                _has_command(path, "xclip"), "xclip"),
            _has_command(path, "xsel"), "xsel"),
     keyboard |->
        append_if(
            append_if(
                append_if(
                    append_if(<<>>, _has_command(path, "ydotool"), "ydotool"),
                    _has_command(path, "kdotool"), "kdotool"),
                _has_command(path, "xdotool"), "xdotool"),
            _has_command(path, "wtype"), "wtype"),
     notification |->
        append_if(<<>>, _has_command(path, "notify-send"), "notify-send")]

_detect_available_tools(path) ==
    [clipboard |->
        append_if(
            append_if(
                append_if(<<>>,
                    _has_command(path, "wl-copy") /\ _has_command(path, "wl-paste"),
                    "wl-clipboard"),
                _has_command(path, "xclip"), "xclip"),
            _has_command(path, "xsel"), "xsel"),
     keyboard |->
        append_if(
            append_if(
                append_if(
                    append_if(<<>>, _has_command(path, "ydotool"), "ydotool"),
                    _has_command(path, "kdotool"), "kdotool"),
                _has_command(path, "xdotool"), "xdotool"),
            _has_command(path, "wtype"), "wtype"),
     notification |->
        append_if(<<>>, _has_command(path, "notify-send"), "notify-send")]

\* PlatformInfo(): the snapshot of the environment and PATH at construction
PlatformInfo(env, path) ==
    LET display_server == _detect_display_server(env)
        desktop_env == _detect_desktop_environment(env)
    IN  [display_server |-> display_server,
         desktop_env |-> desktop_env,
         is_wayland |-> display_server = s_wayland,
         is_x11 |-> display_server = s_x11,
         is_kde |-> contains(s_kde, lower(desktop_env)),
         is_gnome |-> contains(s_gnome, lower(desktop_env)),
         available_tools |-> _detect_available_tools(path)]

(***************************************************************************)
(* Tool selection.                                                         *)
(***************************************************************************)
\* a plausible slip: the two X11 tools tried in the other order
get_clipboard_tool_xsel_first(self) ==
    IF self.is_wayland /\ "wl-clipboard" \in Range(self.available_tools.clipboard)
    THEN "wl-clipboard"
    ELSE IF self.is_x11
    THEN IF "xsel" \in Range(self.available_tools.clipboard) THEN "xsel"
         ELSE IF "xclip" \in Range(self.available_tools.clipboard) THEN "xclip"
         ELSE None
    ELSE IF "wl-clipboard" \in Range(self.available_tools.clipboard)
    THEN "wl-clipboard"
    ELSE None

get_clipboard_tool(self) ==
    IF self.is_wayland /\ "wl-clipboard" \in Range(self.available_tools.clipboard)
    THEN "wl-clipboard"
    ELSE IF self.is_x11
    THEN IF "xclip" \in Range(self.available_tools.clipboard) THEN "xclip"
         ELSE IF "xsel" \in Range(self.available_tools.clipboard) THEN "xsel"
         ELSE None
    ELSE IF "wl-clipboard" \in Range(self.available_tools.clipboard)
    THEN "wl-clipboard"
    ELSE None

\* a plausible slip: the X11 fallback tried before the KDE-specific tool
get_keyboard_tool_x11_before_kde(self) ==
    IF "ydotool" \in Range(self.available_tools.keyboard) THEN "ydotool"
    ELSE IF self.is_x11 /\ "xdotool" \in Range(self.available_tools.keyboard) THEN "xdotool"
    ELSE IF self.is_kde /\ "kdotool" \in Range(self.available_tools.keyboard) THEN "kdotool"
    ELSE IF self.is_wayland /\ "wtype" \in Range(self.available_tools.keyboard) THEN "wtype"
    ELSE None

get_keyboard_tool(self) ==
    IF "ydotool" \in Range(self.available_tools.keyboard) THEN "ydotool"
    ELSE IF self.is_kde /\ "kdotool" \in Range(self.available_tools.keyboard) THEN "kdotool"
    ELSE IF self.is_x11 /\ "xdotool" \in Range(self.available_tools.keyboard) THEN "xdotool"
    ELSE IF self.is_wayland /\ "wtype" \in Range(self.available_tools.keyboard) THEN "wtype"
    ELSE None

(***************************************************************************)
(* Text and bytes: str.encode() (UTF-8) and the decoding subprocess.run    *)
(* does under text=True.                                                   *)
(***************************************************************************)
\* the code points texts are made of: 'h' (one byte) and U+00E9 (two bytes)
Alphabet == {104, 233}

RECURSIVE SeqsUpTo(_, _)
SeqsUpTo(S, n) ==
    IF n = 0 THEN {<<>>}
    ELSE LET shorter == SeqsUpTo(S, n - 1)
         IN  shorter \cup {Append(t, c) : t \in shorter, c \in S}

Texts == SeqsUpTo(Alphabet, MaxTextLen)

\* str.encode() on one code point below U+0800
encode_char(cp) ==
    IF cp < 128 THEN <<cp>> ELSE <<192 + (cp \div 64), 128 + (cp % 64)>>

RECURSIVE encode(_)
encode(text) ==
    IF text = <<>> THEN <<>> ELSE encode_char(Head(text)) \o encode(Tail(text))

RECURSIVE decode(_)
decode(bytes) ==
    IF bytes = <<>> THEN <<>>
    ELSE IF bytes[1] < 128 THEN <<bytes[1]>> \o decode(Tail(bytes))
    ELSE <<(bytes[1] - 192) * 64 + (bytes[2] - 128)>> \o decode(Tail(Tail(bytes)))

(***************************************************************************)
(* subprocess.run: one call is a record of what was asked and how it       *)
(* ended.  An argv element is a literal of the source or a text.           *)
(***************************************************************************)
Lit(s) == [lit |-> s]
Txt(t) == [txt |-> t]

\* how a subprocess.run(..., check=True, timeout=...) can end
Outcomes == {"exit0", "CalledProcessError", "TimeoutExpired", "FileNotFoundError"}

\* what the except clauses of the four operations name
Caught == {"CalledProcessError", "TimeoutExpired", "FileNotFoundError"}

\* the outcomes the system allows for a command: a binary that PATH does not
\* resolve cannot be started, one that it resolves exits 0, exits non-zero
\* or outlives the timeout
subprocess_outcomes(path, cmd) ==
    IF cmd \in path THEN {"exit0", "CalledProcessError", "TimeoutExpired"}
    ELSE {"FileNotFoundError"}

\* input is <<>> for no input= argument, else <<bytes>>
run(argv, input, timeout, outcome, stdout) ==
    [argv |-> argv, input |-> input, timeout |-> timeout,
     outcome |-> outcome, stdout |-> stdout]

\* the result of an operation: the value it returns, or the exception that
\* leaves it, and the subprocess.run calls it made
returns(value, calls) == [value |-> value, raised |-> "", procs |-> calls]
raises(exc, calls) == [value |-> None, raised |-> exc, procs |-> calls]

(***************************************************************************)
(* The four operations.  `outcome` (and `stdout`) is how the one           *)
(* subprocess.run call ends, should the operation make it.                 *)
(***************************************************************************)
\* a plausible slip: a failed copy is attempted a second time
copy_to_clipboard_retries(self, text, outcome) ==
    LET clipboard_tool == get_clipboard_tool(self)
        call == CASE clipboard_tool = "wl-clipboard" ->
                         run(<<Lit("wl-copy"), Txt(text)>>, <<>>, 5, outcome, <<>>)
                  [] clipboard_tool = "xclip" ->
                         run(<<Lit("xclip"), Lit("-selection"), Lit("clipboard")>>,
                             <<encode(text)>>, 5, outcome, <<>>)
                  [] clipboard_tool = "xsel" ->
                         run(<<Lit("xsel"), Lit("--clipboard"), Lit("--input")>>,
                             <<encode(text)>>, 5, outcome, <<>>)
    IN  IF clipboard_tool = None THEN returns(FALSE, <<>>)
        ELSE IF outcome = "exit0" THEN returns(TRUE, <<call>>)
        ELSE IF outcome \in Caught THEN returns(FALSE, <<call, call>>)
        ELSE raises(outcome, <<call>>)

copy_to_clipboard(self, text, outcome) ==
    LET clipboard_tool == get_clipboard_tool(self)
        call == CASE clipboard_tool = "wl-clipboard" ->
                         run(<<Lit("wl-copy"), Txt(text)>>, <<>>, 5, outcome, <<>>)
                  [] clipboard_tool = "xclip" ->
                         run(<<Lit("xclip"), Lit("-selection"), Lit("clipboard")>>,
                             <<encode(text)>>, 5, outcome, <<>>)
                  [] clipboard_tool = "xsel" ->
                         run(<<Lit("xsel"), Lit("--clipboard"), Lit("--input")>>,
                             <<encode(text)>>, 5, outcome, <<>>)
    IN  IF clipboard_tool = None THEN returns(FALSE, <<>>)
        ELSE IF clipboard_tool \notin {"wl-clipboard", "xclip", "xsel"} THEN returns(FALSE, <<>>)
        ELSE IF outcome = "exit0" THEN returns(TRUE, <<call>>)
        ELSE IF outcome \in Caught THEN returns(FALSE, <<call>>)
        ELSE raises(outcome, <<call>>)

\* the value is <<>> for None, else <<the text read>>
paste_from_clipboard(self, outcome, stdout) ==
    LET clipboard_tool == get_clipboard_tool(self)
        call == CASE clipboard_tool = "wl-clipboard" ->
                         run(<<Lit("wl-paste")>>, <<>>, 5, outcome, stdout)
                  [] clipboard_tool = "xclip" ->
                         run(<<Lit("xclip"), Lit("-selection"), Lit("clipboard"), Lit("-o")>>,
                             <<>>, 5, outcome, stdout)
                  [] clipboard_tool = "xsel" ->
                         run(<<Lit("xsel"), Lit("--clipboard"), Lit("--output")>>,
                             <<>>, 5, outcome, stdout)
    IN  IF clipboard_tool = None THEN returns(<<>>, <<>>)
        ELSE IF clipboard_tool \notin {"wl-clipboard", "xclip", "xsel"} THEN returns(<<>>, <<>>)
        ELSE IF outcome = "exit0" THEN returns(<<decode(stdout)>>, <<call>>)
        ELSE IF outcome \in Caught THEN returns(<<>>, <<call>>)
        ELSE raises(outcome, <<call>>)

\* a plausible slip: the except clause leaves out subprocess.TimeoutExpired
type_text_timeout_uncaught(self, text, outcome) ==
    LET keyboard_tool == get_keyboard_tool(self)
        call == CASE keyboard_tool = "ydotool" ->
                         run(<<Lit("ydotool"), Lit("type"), Txt(text)>>, <<>>, 10, outcome, <<>>)
                  [] keyboard_tool = "kdotool" ->
                         run(<<Lit("kdotool"), Lit("type"), Txt(text)>>, <<>>, 10, outcome, <<>>)
                  [] keyboard_tool = "xdotool" ->
                         run(<<Lit("xdotool"), Lit("type"), Lit("--"), Txt(text)>>,
                             <<>>, 10, outcome, <<>>)
                  [] keyboard_tool = "wtype" ->
                         run(<<Lit("wtype"), Txt(text)>>, <<>>, 10, outcome, <<>>)
    IN  IF keyboard_tool = None THEN returns(FALSE, <<>>)
        ELSE IF outcome = "exit0" THEN returns(TRUE, <<call>>)
        ELSE IF outcome \in {"CalledProcessError", "FileNotFoundError"}
        THEN returns(FALSE, <<call>>)
        ELSE raises(outcome, <<call>>)

type_text(self, text, outcome) ==
    LET keyboard_tool == get_keyboard_tool(self)
        call == CASE keyboard_tool = "ydotool" ->
                         run(<<Lit("ydotool"), Lit("type"), Txt(text)>>, <<>>, 10, outcome, <<>>)
                  [] keyboard_tool = "kdotool" ->
                         run(<<Lit("kdotool"), Lit("type"), Txt(text)>>, <<>>, 10, outcome, <<>>)
                  [] keyboard_tool = "xdotool" ->
                         run(<<Lit("xdotool"), Lit("type"), Lit("--"), Txt(text)>>,
                             <<>>, 10, outcome, <<>>)
                  [] keyboard_tool = "wtype" ->
                         run(<<Lit("wtype"), Txt(text)>>, <<>>, 10, outcome, <<>>)
    IN  IF keyboard_tool = None THEN returns(FALSE, <<>>)
        ELSE IF keyboard_tool \notin {"ydotool", "kdotool", "xdotool", "wtype"}
        THEN returns(FALSE, <<>>)
        ELSE IF outcome = "exit0" THEN returns(TRUE, <<call>>)
        ELSE IF outcome \in Caught THEN returns(FALSE, <<call>>)
        ELSE raises(outcome, <<call>>)

\* a plausible slip: any selected keyboard tool is asked to inject the keys
simulate_paste_shortcut_any_tool(self, use_shift, outcome) ==
    LET keyboard_tool == get_keyboard_tool(self)
        cmd == IF keyboard_tool = None THEN "ydotool" ELSE keyboard_tool
        call == IF use_shift
                THEN run(<<Lit(cmd), Lit("key"), Lit("42:1"), Lit("29:1"), Lit("47:1"),
                           Lit("47:0"), Lit("29:0"), Lit("42:0")>>, <<>>, 2, outcome, <<>>)
                ELSE run(<<Lit(cmd), Lit("key"), Lit("29:1"), Lit("47:1"),
                           Lit("47:0"), Lit("29:0")>>, <<>>, 2, outcome, <<>>)
    IN  IF keyboard_tool = None THEN returns(FALSE, <<>>)
        ELSE IF outcome = "exit0" THEN returns(TRUE, <<call>>)
        ELSE IF outcome \in Caught THEN returns(FALSE, <<call>>)
        ELSE raises(outcome, <<call>>)

simulate_paste_shortcut(self, use_shift, outcome) ==
    LET keyboard_tool == get_keyboard_tool(self)
        call == IF use_shift
                THEN run(<<Lit("ydotool"), Lit("key"), Lit("42:1"), Lit("29:1"), Lit("47:1"),
                           Lit("47:0"), Lit("29:0"), Lit("42:0")>>, <<>>, 2, outcome, <<>>)
                ELSE run(<<Lit("ydotool"), Lit("key"), Lit("29:1"), Lit("47:1"),
                           Lit("47:0"), Lit("29:0")>>, <<>>, 2, outcome, <<>>)
    IN  IF keyboard_tool # "ydotool" THEN returns(FALSE, <<>>)
        ELSE IF outcome = "exit0" THEN returns(TRUE, <<call>>)
        ELSE IF outcome \in Caught THEN returns(FALSE, <<call>>)
        ELSE raises(outcome, <<call>>)

(***************************************************************************)
(* Installation instructions.                                              *)
(***************************************************************************)
\* dict.get(key, default)
dict_get(d, key, default) == IF key \in DOMAIN d THEN d[key] ELSE default

Distros == {"arch", "debian", "fedora", "opensuse"}

RECURSIVE scan_os_release(_)
scan_os_release(lines) ==
    IF lines = <<>> THEN "unknown"
    ELSE LET line == Head(lines) IN
         IF startswith(line, s_ID_eq)
         THEN LET distro_id == lower(strip(strip(split(line, "=")[2], Whitespace), {"\""}))
              IN  IF distro_id \in {s_arch, s_manjaro, s_cachyos} THEN "arch"
                  ELSE IF distro_id \in {s_ubuntu, s_debian, s_pop, s_mint} THEN "debian"
                  ELSE IF distro_id \in {s_fedora, s_rhel, s_centos} THEN "fedora"
                  ELSE IF distro_id \in {s_opensuse, s_sles} THEN "opensuse"
                  ELSE scan_os_release(Tail(lines))
         ELSE scan_os_release(Tail(lines))

\* file is <<>> when /etc/os-release does not exist (FileNotFoundError), else <<lines>>
_detect_distro(file) ==
    IF file = <<>> THEN "unknown" ELSE scan_os_release(file[1])

package_names ==
    [package \in {"wl-clipboard", "xclip", "ydotool"} |-> [distro \in Distros |-> package]]

package_managers ==
    [arch |-> "sudo pacman -S",
     debian |-> "sudo apt install",
     fedora |-> "sudo dnf install",
     opensuse |-> "sudo zypper install"]

generic_package_manager == "sudo <package-manager> install"

\* the f-string "{pkg_mgr} {pkg_name}", as its pieces
_get_package_cmd(distro, package) ==
    LET pkg_name == dict_get(dict_get(package_names, package, <<>>), distro, package)
        pkg_mgr == dict_get(package_managers, distro, generic_package_manager)
    IN  <<pkg_mgr, " ", pkg_name>>

\* a plausible slip: the detected distribution is not handed on
get_install_instructions_generic_only(self, file) ==
    LET distro == "unknown"
        clipboard_tool == get_clipboard_tool(self)
        keyboard_tool == get_keyboard_tool(self)
        clipboard_lines ==
            IF clipboard_tool = None
            THEN IF self.is_wayland
                 THEN << <<"Install clipboard tool: ">> \o _get_package_cmd(distro, "wl-clipboard") >>
                 ELSE << <<"Install clipboard tool: ">> \o _get_package_cmd(distro, "xclip") >>
            ELSE <<>>
        keyboard_lines ==
            IF keyboard_tool = None
            THEN << <<"Install keyboard automation: ">> \o _get_package_cmd(distro, "ydotool") >>
            ELSE <<>>
        instructions == clipboard_lines \o keyboard_lines
    IN  IF instructions = <<>> THEN << <<"All required tools are installed!">> >>
        ELSE instructions

\* the returned text, as its lines ("\n".join), each line as its pieces
get_install_instructions(self, file) ==
    LET distro == _detect_distro(file)
        clipboard_tool == get_clipboard_tool(self)
        keyboard_tool == get_keyboard_tool(self)
        clipboard_lines ==
            IF clipboard_tool = None
            THEN IF self.is_wayland
                 THEN << <<"Install clipboard tool: ">> \o _get_package_cmd(distro, "wl-clipboard") >>
                 ELSE << <<"Install clipboard tool: ">> \o _get_package_cmd(distro, "xclip") >>
            ELSE <<>>
        keyboard_lines ==
            IF keyboard_tool = None
            THEN << <<"Install keyboard automation: ">> \o _get_package_cmd(distro, "ydotool") >>
                 \o (IF keyboard_tool = "ydotool"
                     THEN << <<"Enable ydotool daemon: systemctl --user enable --now ydotool">> >>
                     ELSE <<>>)
            ELSE <<>>
        instructions == clipboard_lines \o keyboard_lines
    IN  IF instructions = <<>> THEN << <<"All required tools are installed!">> >>
        ELSE instructions

(***************************************************************************)
(* The singleton.                                                          *)
(***************************************************************************)
\* a plausible slip: the `is None` test is lost and every call constructs anew
get_platform_info_rebuilds(global, env, path) == <<PlatformInfo(env, path)>>

\* the value of the global _platform_info after the call; its one element is
\* what the call returns
get_platform_info(global, env, path) ==
    IF global = <<>> THEN <<PlatformInfo(env, path)>> ELSE global

(***************************************************************************)
(* The worlds the model draws from.                                        *)
(***************************************************************************)
Commands == {"wl-copy", "wl-paste", "xclip", "xsel",
             "ydotool", "kdotool", "xdotool", "wtype", "notify-send"}

\* the commands the selectors choose among
SelectableCommands == Commands \ {"notify-send"}

\* marks a variable that is not set, in the records below
unset == <<"(unset)">>

\* the values each probed variable takes when it is set
EnvValues ==
    [XDG_SESSION_TYPE |-> {<<>>, s_wayland, s_x11, <<"X","1","1">>, <<"t","t","y">>},
     WAYLAND_DISPLAY |-> {<<>>, <<"w","a","y","l","a","n","d","-","0">>},
     DISPLAY |-> {<<>>, <<":","0">>},
     XDG_CURRENT_DESKTOP |-> {s_KDE, s_GNOME},
     DESKTOP_SESSION |-> {<<"p","l","a","s","m","a">>},
     KDE_FULL_SESSION |-> {<<"t","r","u","e">>},
     GNOME_DESKTOP_SESSION_ID |-> {<<"t","h","i","s","-","i","s","-","d","e","p","r","e","c","a","t","e","d">>}]

EnvNames == DOMAIN EnvValues

\* os.environ of a record that gives every name a value or `unset`
mkenv(r) == [name \in {n \in DOMAIN r : r[n] # unset} |-> r[name]]

\* every combination of the probed variables, each set, empty or not set
AllEnvironments ==
    {mkenv(r) : r \in [XDG_SESSION_TYPE : EnvValues.XDG_SESSION_TYPE \cup {unset},
                       WAYLAND_DISPLAY : EnvValues.WAYLAND_DISPLAY \cup {unset},
                       DISPLAY : EnvValues.DISPLAY \cup {unset},
                       XDG_CURRENT_DESKTOP : EnvValues.XDG_CURRENT_DESKTOP \cup {unset},
                       DESKTOP_SESSION : EnvValues.DESKTOP_SESSION \cup {unset},
                       KDE_FULL_SESSION : EnvValues.KDE_FULL_SESSION \cup {unset},
                       GNOME_DESKTOP_SESSION_ID : EnvValues.GNOME_DESKTOP_SESSION_ID \cup {unset}]}

\* the environments that produce every display server with and without KDE
SessionEnvironments ==
    {mkenv(r) : r \in [XDG_SESSION_TYPE : {s_wayland, s_x11, unset},
                       XDG_CURRENT_DESKTOP : {s_KDE, unset}]}

no_environment == mkenv([XDG_SESSION_TYPE |-> unset])

\* /etc/os-release: missing, empty, and some real and some awkward contents
OsReleaseFiles ==
    {<<>>,
     << <<>> >>,
     << << <<"N","A","M","E","=","A","r","c","h","\n">>, <<"I","D","=","a","r","c","h","\n">> >> >>,
     << << <<"I","D","=","\"","c","e","n","t","o","s","\"","\n">> >> >>,
     << << <<"I","D","=","D","e","b","i","a","n","\n">> >> >>,
     << << <<"I","D","=","o","p","e","n","s","u","s","e","\n">> >> >>,
     << << <<"I","D","=","n","i","x","o","s","\n">> >> >>,
     << << <<"I","D","_","L","I","K","E","=","a","r","c","h","\n">>, <<"I","D","=","e","n","d","e","a","v","o","u","r","o","s","\n">> >> >>}

(***************************************************************************)
(* platform_detect as a state machine.  A caller reaches every operation   *)
(* through get_platform_info(), so each action is that call followed by    *)
(* the method.                                                             *)
(***************************************************************************)
\* every subprocess.run call ended in a way the system allows
allowed(calls) ==
    \A i \in 1..Len(calls) :
        calls[i].outcome \in subprocess_outcomes(PATH, calls[i].argv[1].lit)

\* the call `op(args)` on the singleton `info` ended as `r`
finish(info, op, args, r) ==
    /\ allowed(r.procs)
    /\ _platform_info' = info
    /\ first_info' = IF first_info = <<>> THEN info ELSE first_info
    /\ last' = [op |-> op, args |-> args, value |-> r.value, raised |-> r.raised,
                 at |-> edits]
    /\ procs' = r.procs
    /\ UNCHANGED <<environ, PATH, os_release, edits>>
    /\ UNCHANGED loop_vars

GetPlatformInfo ==
    LET info == get_platform_info(_platform_info, environ, PATH)
    IN  finish(info, "get_platform_info", <<>>, returns(info[1], <<>>))

GetClipboardTool ==
    LET info == get_platform_info(_platform_info, environ, PATH)
    IN  finish(info, "get_clipboard_tool", <<>>, returns(get_clipboard_tool(info[1]), <<>>))

GetKeyboardTool ==
    LET info == get_platform_info(_platform_info, environ, PATH)
    IN  finish(info, "get_keyboard_tool", <<>>, returns(get_keyboard_tool(info[1]), <<>>))

CopyToClipboard ==
    \E text \in Texts, outcome \in Outcomes :
        LET info == get_platform_info(_platform_info, environ, PATH)
        IN  finish(info, "copy_to_clipboard", <<text>>,
                   copy_to_clipboard(info[1], text, outcome))

PasteFromClipboard ==
    \E outcome \in Outcomes, text \in Texts :
        LET info == get_platform_info(_platform_info, environ, PATH)
        IN  finish(info, "paste_from_clipboard", <<>>,
                   paste_from_clipboard(info[1], outcome, encode(text)))

TypeText ==
    \E text \in Texts, outcome \in Outcomes :
        LET info == get_platform_info(_platform_info, environ, PATH)
        IN  finish(info, "type_text", <<text>>, type_text(info[1], text, outcome))

SimulatePasteShortcut ==
    \E use_shift \in BOOLEAN, outcome \in Outcomes :
        LET info == get_platform_info(_platform_info, environ, PATH)
        IN  finish(info, "simulate_paste_shortcut", <<use_shift>>,
                   simulate_paste_shortcut(info[1], use_shift, outcome))

GetInstallInstructions ==
    LET info == get_platform_info(_platform_info, environ, PATH)
    IN  finish(info, "get_install_instructions", <<>>,
               returns(get_install_instructions(info[1], os_release), <<>>))

\* the environment and PATH are the system's, and change under the process;
\* the changes the model makes: the session and desktop variables, and one
\* command of each kind
ChangingNames == {"XDG_SESSION_TYPE", "XDG_CURRENT_DESKTOP"}
ChangingCommands == {"wl-paste", "xclip", "ydotool"}

Setenv ==
    \E name \in ChangingNames :
        \E value \in EnvValues[name] :
            /\ edits < MaxEdits
            /\ environ_get(environ, name) # value \/ name \notin DOMAIN environ
            /\ environ' = [n \in DOMAIN environ \cup {name} |->
                              IF n = name THEN value ELSE environ[n]]
            /\ edits' = edits + 1
            /\ UNCHANGED <<PATH, os_release, _platform_info, first_info, last, procs>>
            /\ UNCHANGED loop_vars

Unsetenv ==
    \E name \in ChangingNames \cap DOMAIN environ :
        /\ edits < MaxEdits
        /\ environ' = [n \in DOMAIN environ \ {name} |-> environ[n]]
        /\ edits' = edits + 1
        /\ UNCHANGED <<PATH, os_release, _platform_info, first_info, last, procs>>
        /\ UNCHANGED loop_vars

Install ==
    \E cmd \in ChangingCommands \ PATH :
        /\ edits < MaxEdits
        /\ PATH' = PATH \cup {cmd}
        /\ edits' = edits + 1
        /\ UNCHANGED <<environ, os_release, _platform_info, first_info, last, procs>>
        /\ UNCHANGED loop_vars

Uninstall ==
    \E cmd \in ChangingCommands \cap PATH :
        /\ edits < MaxEdits
        /\ PATH' = PATH \ {cmd}
        /\ edits' = edits + 1
        /\ UNCHANGED <<environ, os_release, _platform_info, first_info, last, procs>>
        /\ UNCHANGED loop_vars

(***************************************************************************)
(* The interactive loop: VoiceTranscriber.run_interactive.                 *)
(***************************************************************************)
s_quit == <<"q","u","i","t">>
s_exit == <<"e","x","i","t">>

\* what the user may type at the prompt, before strip()
Inputs == {<<>>, <<" ">>, s_quit, s_exit, <<"Q","U","I","T">>, <<" ","E","x","i","t"," ">>, <<"h","i">>}

\* the "text" field of the server's JSON answer, before strip()
Answers == {<<>>, <<" ">>, <<"h","i">>, <<" ","h","i","\n">>}

\* how the one requests.post of transcribe_audio can end: a 2xx answer, or
\* requests.exceptions.ConnectionError / Timeout, or a non-2xx answer, which
\* raise_for_status turns into requests.exceptions.HTTPError
PostOutcomes == {"ok", "ConnectionError", "Timeout", "HTTPError"}

\* subclasses of requests.exceptions.RequestException
RequestExceptions == {"ConnectionError", "Timeout", "HTTPError"}

WHISPER_URL == "http://127.0.0.1:2022/v1/audio/transcriptions"

post(outcome) == [url |-> WHISPER_URL, timeout |-> 30, outcome |-> outcome]

\* a plausible slip: only the connection failure is caught
transcribe_audio_catches_connection_only(outcome, answer) ==
    IF outcome = "ok"
    THEN [value |-> strip(answer, Whitespace), raised |-> "", http |-> <<post(outcome)>>]
    ELSE IF outcome = "ConnectionError"
    THEN [value |-> <<>>, raised |-> "", http |-> <<post(outcome)>>]
    ELSE [value |-> <<>>, raised |-> outcome, http |-> <<post(outcome)>>]

\* transcribe_audio once the .wav file is written: the request, the answer's
\* text or the caught failure
transcribe_audio(outcome, answer) ==
    IF outcome = "ok"
    THEN [value |-> strip(answer, Whitespace), raised |-> "", http |-> <<post(outcome)>>]
    ELSE IF outcome \in RequestExceptions
    THEN [value |-> <<>>, raised |-> "", http |-> <<post(outcome)>>]
    ELSE [value |-> <<>>, raised |-> outcome, http |-> <<post(outcome)>>]

no_call == [value |-> <<>>, raised |-> "", http |-> <<>>]

\* one more pass of the while loop, counted up to MaxRounds
next_round == IF rounds < MaxRounds THEN rounds + 1 ELSE rounds

\* input() returns: quit/exit, other typed input, or ENTER
ReadInput ==
    \E raw \in Inputs :
        LET typed == strip(raw, Whitespace) IN
        /\ pc = "input"
        /\ user_input' = typed
        /\ IF lower(typed) \in {s_quit, s_exit}
           THEN /\ pc' = "done"
                /\ ended_by' = "quit"
                /\ printed' = "Goodbye!"
                /\ UNCHANGED rounds
           ELSE IF truthy(typed)
           THEN /\ pc' = "input"
                /\ printed' = "Press ENTER to record, or type 'quit' to exit"
                /\ rounds' = next_round
                /\ UNCHANGED ended_by
           ELSE /\ pc' = "record"
                /\ UNCHANGED <<printed, rounds, ended_by>>
        /\ http' = <<>>
        /\ transcribed' = no_call
        /\ UNCHANGED message
        /\ UNCHANGED platform_vars

\* input() raises (EOFError on a closed stdin): except Exception, next pass
InputFails ==
    /\ pc = "input"
    /\ pc' = "input"
    /\ printed' = "Error: EOFError"
    /\ rounds' = next_round
    /\ UNCHANGED <<user_input, message, http, transcribed, ended_by>>
    /\ UNCHANGED platform_vars

\* Ctrl-C at the prompt, while recording or while transcribing
Interrupt ==
    /\ pc \in {"input", "record", "transcribe"}
    /\ pc' = "done"
    /\ ended_by' = "KeyboardInterrupt"
    /\ printed' = "Session interrupted. Goodbye!"
    /\ UNCHANGED <<user_input, message, http, transcribed, rounds>>
    /\ UNCHANGED platform_vars

\* record_audio returns the samples, or sounddevice raises
RecordAudio ==
    \E ok \in BOOLEAN :
        /\ pc = "record"
        /\ IF ok
           THEN /\ pc' = "transcribe"
                /\ UNCHANGED <<printed, rounds>>
           ELSE /\ pc' = "input"
                /\ printed' = "Error: PortAudioError"
                /\ rounds' = next_round
        /\ UNCHANGED <<user_input, message, http, transcribed, ended_by>>
        /\ UNCHANGED platform_vars

\* writing the .wav file fails before the request is made: the exception is
\* the loop's to catch
WavWriteFails ==
    /\ pc = "transcribe"
    /\ pc' = "input"
    /\ transcribed' = [value |-> <<>>, raised |-> "OSError", http |-> <<>>]
    /\ http' = <<>>
    /\ printed' = "Error: OSError"
    /\ rounds' = next_round
    /\ UNCHANGED <<user_input, message, ended_by>>
    /\ UNCHANGED platform_vars

\* message = self.transcribe_audio(audio_data), then what the loop prints
TranscribeAudio ==
    \E outcome \in PostOutcomes, answer \in Answers :
        LET r == transcribe_audio(outcome, answer) IN
        /\ pc = "transcribe"
        /\ transcribed' = r
        /\ http' = r.http
        /\ pc' = "input"
        /\ rounds' = next_round
        /\ IF r.raised = ""
           THEN /\ message' = r.value
                /\ printed' = IF truthy(r.value) THEN "Transcription:"
                              ELSE "No speech detected. Please try again."
           ELSE /\ printed' = "Error: " \o r.raised
                /\ UNCHANGED message
        /\ UNCHANGED <<user_input, ended_by>>
        /\ UNCHANGED platform_vars

(***************************************************************************)
(* Specifications.                                                         *)
(***************************************************************************)
no_last == [op |-> "", args |-> <<>>, value |-> None, raised |-> "", at |-> 0]

\* nothing has been called yet in the world (env, path, file)
start(env, path, file) ==
    /\ environ = env
    /\ PATH = path
    /\ os_release = file
    /\ _platform_info = <<>>
    /\ first_info = <<>>
    /\ edits = 0
    /\ last = no_last
    /\ procs = <<>>
    /\ pc = "input"
    /\ user_input = <<>>
    /\ message = <<>>
    /\ http = <<>>
    /\ transcribed = no_call
    /\ printed = ""
    /\ rounds = 0
    /\ ended_by = ""

Calls ==
    \/ GetPlatformInfo
    \/ GetClipboardTool
    \/ GetKeyboardTool
    \/ CopyToClipboard
    \/ PasteFromClipboard
    \/ TypeText
    \/ SimulatePasteShortcut
    \/ GetInstallInstructions

\* tool selection and the operations: every display server, with and without
\* KDE, over every set of installed commands
Init ==
    \E env \in SessionEnvironments, path \in SUBSET SelectableCommands :
        start(env, path, <<>>)

Next == Calls

Spec == Init /\ [][Next]_vars

\* environment probing: every combination of the probed variables with no
\* tool installed, and every os-release file with no variable set
InitEnv ==
    \/ \E env \in AllEnvironments : start(env, {}, <<>>)
    \/ \E file \in OsReleaseFiles : start(no_environment, {}, file)

SpecEnv == InitEnv /\ [][Next]_vars

\* the snapshot under a changing system: the environment and PATH change
\* between the calls
InitSnapshot ==
    \E env \in {mkenv(r) : r \in [XDG_SESSION_TYPE : {s_wayland, s_x11, unset}]},
       path \in {{}, Commands} : start(env, path, <<>>)

NextSnapshot ==
    \/ Calls
    \/ Setenv
    \/ Unsetenv
    \/ Install
    \/ Uninstall

SpecSnapshot == InitSnapshot /\ [][NextSnapshot]_vars

\* the interactive loop
InitLoop == start(no_environment, {}, <<>>)

NextLoop ==
    \/ ReadInput
    \/ InputFails
    \/ Interrupt
    \/ RecordAudio
    \/ WavWriteFails
    \/ TranscribeAudio

SpecLoop == InitLoop /\ [][NextLoop]_vars

\* the two programs of the repository: a process that uses platform_detect
\* (the interactive loop is not running: pc is "off") under a changing
\* system, and the interactive loop, which never calls platform_detect
off == "off"

InitPrograms ==
    \/ \E env \in {mkenv(r) : r \in [XDG_SESSION_TYPE : {s_wayland, s_x11, unset}]},
          path \in {{}, Commands} :
           /\ environ = env
           /\ PATH = path
           /\ os_release = <<>>
           /\ _platform_info = <<>>
           /\ first_info = <<>>
           /\ edits = 0
           /\ last = no_last
           /\ procs = <<>>
           /\ pc = off
           /\ user_input = <<>>
           /\ message = <<>>
           /\ http = <<>>
           /\ transcribed = no_call
           /\ printed = ""
           /\ rounds = 0
           /\ ended_by = ""
    \/ InitLoop

NextPrograms ==
    \/ pc = off /\ GetPlatformInfo
    \/ pc = off /\ GetClipboardTool
    \/ pc = off /\ GetKeyboardTool
    \/ pc = off /\ CopyToClipboard
    \/ pc = off /\ PasteFromClipboard
    \/ pc = off /\ TypeText
    \/ pc = off /\ SimulatePasteShortcut
    \/ pc = off /\ GetInstallInstructions
    \/ pc = off /\ Setenv
    \/ pc = off /\ Unsetenv
    \/ pc = off /\ Install
    \/ pc = off /\ Uninstall
    \/ NextLoop

SpecPrograms == InitPrograms /\ [][NextPrograms]_vars

(***************************************************************************)
(* Properties.                                                             *)
(***************************************************************************)
\* the singleton the last call was made on
self == _platform_info[1]

installed(cmd) == cmd \in PATH
wl_pair_installed == installed("wl-copy") /\ installed("wl-paste")

\* C1: get_clipboard_tool returns the Wayland pair on Wayland when both halves
\* are installed; on X11 xclip if installed, else xsel if installed; and
\* whenever no earlier rule gave a tool -- in any session type, an X11
\* session without xclip and xsel included -- the Wayland pair if it is
\* installed; else none.
C1_ClipboardOrder ==
    last.op = "get_clipboard_tool" =>
        last.value =
            IF self.display_server = s_wayland /\ wl_pair_installed THEN "wl-clipboard"
            ELSE IF self.display_server = s_x11 /\ installed("xclip") THEN "xclip"
            ELSE IF self.display_server = s_x11 /\ installed("xsel") THEN "xsel"
            ELSE IF wl_pair_installed THEN "wl-clipboard"
            ELSE None

\* C2, as claimed: the display server is XDG_SESSION_TYPE when that value is
\* exactly 'wayland' or 'x11'; else 'wayland' when WAYLAND_DISPLAY is present
\* (set to a non-empty value); else 'x11' when DISPLAY is present; else
\* 'unknown'.
C2_DisplayServerExactMatch ==
    last.op = "get_platform_info" =>
        last.value.display_server =
            IF environ_get(environ, "XDG_SESSION_TYPE") \in {s_wayland, s_x11}
            THEN environ_get(environ, "XDG_SESSION_TYPE")
            ELSE IF environ_get(environ, "WAYLAND_DISPLAY") # <<>> THEN s_wayland
            ELSE IF environ_get(environ, "DISPLAY") # <<>> THEN s_x11
            ELSE s_unknown

\* two str values are equal but for the case of their letters
same_ignoring_case(a, b) == lower(a) = lower(b)

\* C2, amended: the display server is 'wayland' ('x11') when XDG_SESSION_TYPE
\* is 'wayland' ('x11') in any letter case; else 'wayland' when
\* WAYLAND_DISPLAY is set to a non-empty value; else 'x11' when DISPLAY is set
\* to a non-empty value; else 'unknown'.  So XDG_SESSION_TYPE=wayland gives
\* 'wayland' whatever the other variables are, and the result is always one of
\* x11, wayland, unknown.
C2_DisplayServerPriority ==
    last.op = "get_platform_info" =>
        LET xdg == environ_get(environ, "XDG_SESSION_TYPE")
            got == last.value.display_server
        IN  /\ got \in {s_x11, s_wayland, s_unknown}
            /\ xdg = s_wayland => got = s_wayland
            /\ got =
                 IF same_ignoring_case(xdg, s_wayland) THEN s_wayland
                 ELSE IF same_ignoring_case(xdg, s_x11) THEN s_x11
                 ELSE IF "WAYLAND_DISPLAY" \in DOMAIN environ
                         /\ environ["WAYLAND_DISPLAY"] # <<>> THEN s_wayland
                 ELSE IF "DISPLAY" \in DOMAIN environ
                         /\ environ["DISPLAY"] # <<>> THEN s_x11
                 ELSE s_unknown

\* C2 witness: XDG_SESSION_TYPE is 'X11' in capitals, a Wayland display is set,
\* and the snapshot says x11
C2_Witness ==
    /\ last.op = "get_platform_info"
    /\ environ_get(environ, "XDG_SESSION_TYPE") = <<"X","1","1">>
    /\ environ_get(environ, "WAYLAND_DISPLAY") # <<>>
    /\ last.value.display_server = s_x11

\* C3: get_keyboard_tool returns ydotool if installed, in any session and
\* desktop; else kdotool when KDE is detected and kdotool is installed; else
\* xdotool on X11 when installed; else wtype on Wayland when installed; else
\* none.  One tool at most.
C3_KeyboardOrder ==
    last.op = "get_keyboard_tool" =>
        /\ last.value \in {"ydotool", "kdotool", "xdotool", "wtype", None}
        /\ last.value =
             IF installed("ydotool") THEN "ydotool"
             ELSE IF contains(s_kde, lower(self.desktop_env)) /\ installed("kdotool")
             THEN "kdotool"
             ELSE IF self.display_server = s_x11 /\ installed("xdotool") THEN "xdotool"
             ELSE IF self.display_server = s_wayland /\ installed("wtype") THEN "wtype"
             ELSE None

\* C3 witness: KDE on X11 with kdotool and xdotool installed and no ydotool:
\* the desktop-specific tool wins
C3_Witness ==
    /\ last.op = "get_keyboard_tool"
    /\ self.display_server = s_x11
    /\ self.desktop_env = s_KDE
    /\ {"kdotool", "xdotool", "wtype"} \subseteq PATH
    /\ ~installed("ydotool")
    /\ last.value = "kdotool"

Operations ==
    {"copy_to_clipboard", "paste_from_clipboard", "type_text", "simulate_paste_shortcut"}

\* the negative result of an operation: None for paste_from_clipboard, else False
negative(op) == IF op = "paste_from_clipboard" THEN <<>> ELSE FALSE

C5_ShortcutOnlyYdotool ==
    (last.op = "simulate_paste_shortcut" /\ get_keyboard_tool(self) # "ydotool") =>
        /\ last.raised = ""
        /\ last.value = FALSE
        /\ procs = <<>>

\* C5 witness: xdotool is installed and selected, and Shift+Ctrl+V is refused
C5_Witness ==
    /\ last.op = "simulate_paste_shortcut"
    /\ last.args = <<TRUE>>
    /\ installed("xdotool")
    /\ get_keyboard_tool(self) = "xdotool"
    /\ last.value = FALSE
    /\ procs = <<>>

\* C6: with no clipboard tool installed (not the whole wl-copy/wl-paste pair,
\* not xclip, not xsel) copy_to_clipboard returns False and
\* paste_from_clipboard None, in every session and for every text, and no
\* process is run.
C6_NoClipboardTool ==
    (/\ last.op \in {"copy_to_clipboard", "paste_from_clipboard"}
     /\ ~wl_pair_installed
     /\ ~installed("xclip")
     /\ ~installed("xsel")) =>
        /\ last.raised = ""
        /\ last.value = negative(last.op)
        /\ procs = <<>>

\* C6 witness: a Wayland session with one half of the pair only, a non-empty
\* text, and the copy refused
C6_Witness ==
    /\ last.op = "copy_to_clipboard"
    /\ last.args # << <<>> >>
    /\ self.display_server = s_wayland
    /\ installed("wl-copy")
    /\ ~installed("wl-paste")
    /\ ~installed("xclip")
    /\ ~installed("xsel")
    /\ last.value = FALSE
    /\ procs = <<>>

\* the failures of the transcription service: unreachable, timed out, non-2xx
NetworkFailures == {"ConnectionError", "Timeout", "HTTPError"}

\* the step in which this pass's transcription request is made and fails
TranscriptionFails ==
    /\ pc = "transcribe"
    /\ http = <<>>
    /\ http' # <<>>
    /\ http'[1].outcome \in NetworkFailures

\* the step in which the loop ends
LoopEnds == pc # "done" /\ pc' = "done"

\* C7: a network or service failure during a transcription is caught,
\* transcribe_audio gives the empty string, and the loop goes on: it is back at
\* the prompt, where the next command can be read.  The loop ends only when
\* quit or exit is typed or on a keyboard interrupt.
C7_LoopSurvivesNetworkFailure ==
    /\ [](pc = "input" => ENABLED ReadInput)
    /\ [][/\ TranscriptionFails =>
                 /\ transcribed'.raised = ""
                 /\ transcribed'.value = <<>>
                 /\ message' = <<>>
                 /\ pc' = "input"
                 /\ ended_by' = ""
          /\ LoopEnds =>
                 \/ pc = "input" /\ lower(user_input') \in {s_quit, s_exit}
                 \/ ended_by' = "KeyboardInterrupt"]_vars

\* C7 witness: a transcription came back before, this pass's request timed
\* out, and the loop is at the prompt again with an empty message
C7_Witness ==
    /\ pc = "input"
    /\ rounds >= 2
    /\ Len(http) = 1
    /\ http[1].outcome = "Timeout"
    /\ transcribed = [value |-> <<>>, raised |-> "", http |-> http]
    /\ message = <<>>
    /\ printed = "No speech detected. Please try again."
    /\ ended_by = ""

\* nothing probed is set and no helper is installed
bare_system == DOMAIN environ = {} /\ PATH = {}

\* C8, as claimed: with no probed variable set and no helper installed the
\* display server and the desktop are 'unknown', both selectors give none, and
\* get_install_instructions has a clipboard and a keyboard-automation entry,
\* each with the generic package-manager text.
C8_BareSystemGenericText ==
    (bare_system /\ last.op = "get_install_instructions") =>
        /\ self.display_server = s_unknown
        /\ self.desktop_env = s_unknown
        /\ get_clipboard_tool(self) = None
        /\ get_keyboard_tool(self) = None
        /\ Len(last.value) = 2
        /\ last.value[1] = <<"Install clipboard tool: ", generic_package_manager, " ", "xclip">>
        /\ last.value[2] =
               <<"Install keyboard automation: ", generic_package_manager, " ", "ydotool">>

\* the ID= values of /etc/os-release that name a known family, compared after
\* strip(), strip('"') and lower()
KnownIds ==
    [arch |-> {s_arch, s_manjaro, s_cachyos},
     debian |-> {s_ubuntu, s_debian, s_pop, s_mint},
     fedora |-> {s_fedora, s_rhel, s_centos},
     opensuse |-> {s_opensuse, s_sles}]

\* the install command the instructions should show for a file: that of the
\* family of the first ID= line naming a known distribution, else the generic
\* text
expected_package_manager(file) ==
    LET id(line) == lower(strip(strip(SubSeq(line, 4, Len(line)), Whitespace), {"\""}))
        known(line) == startswith(line, s_ID_eq) /\ \E d \in Distros : id(line) \in KnownIds[d]
    IN  IF file = <<>> \/ ~\E i \in 1..Len(file[1]) : known(file[1][i])
        THEN generic_package_manager
        ELSE LET i == CHOOSE k \in 1..Len(file[1]) :
                          known(file[1][k]) /\ \A j \in 1..(k - 1) : ~known(file[1][j])
                 d == CHOOSE x \in Distros : id(file[1][i]) \in KnownIds[x]
             IN  package_managers[d]

\* C8, amended: with no probed variable set and no helper installed the
\* display server and the desktop are 'unknown', both selectors give none, and
\* get_install_instructions has a clipboard and a keyboard-automation entry,
\* each with the install command of the distribution /etc/os-release names:
\* the generic package-manager text when the file is missing or names no known
\* distribution.
C8_BareSystemInstructions ==
    (bare_system /\ last.op = "get_install_instructions") =>
        /\ self.display_server = s_unknown
        /\ self.desktop_env = s_unknown
        /\ get_clipboard_tool(self) = None
        /\ get_keyboard_tool(self) = None
        /\ Len(last.value) = 2
        /\ last.value[1] =
               <<"Install clipboard tool: ", expected_package_manager(os_release), " ", "xclip">>
        /\ last.value[2] =
               <<"Install keyboard automation: ", expected_package_manager(os_release),
                 " ", "ydotool">>

\* C8 witness: the bare system of an unknown distribution, and the two generic
\* entries
C8_Witness ==
    /\ bare_system
    /\ os_release = << << <<"I","D","=","n","i","x","o","s","\n">> >> >>
    /\ last.op = "get_install_instructions"
    /\ Len(last.value) = 2
    /\ last.value[1][2] = generic_package_manager
    /\ last.value[2][2] = generic_package_manager

\* an argv element that is a text
is_text_arg(a) == "txt" \in DOMAIN a

\* C9: with XDG_SESSION_TYPE=x11 and xclip and xsel both installed,
\* get_clipboard_tool gives xclip, and copy_to_clipboard(text) runs xclip, once,
\* with the text as its input, and returns True when xclip exits 0.
C9_X11CopyUsesXclip ==
    (/\ environ_get(environ, "XDG_SESSION_TYPE") = s_x11
     /\ installed("xclip")
     /\ installed("xsel")) =>
        /\ last.op = "get_clipboard_tool" => last.value = "xclip"
        /\ last.op = "copy_to_clipboard" =>
               /\ Len(procs) = 1
               /\ procs[1].argv = <<Lit("xclip"), Lit("-selection"), Lit("clipboard")>>
               /\ Len(procs[1].input) = 1
               /\ decode(procs[1].input[1]) = last.args[1]
               /\ procs[1].outcome = "exit0" => (last.raised = "" /\ last.value = TRUE)

\* C9 witness: a text with a two-byte character went to xclip, which exited 0
C9_Witness ==
    /\ environ_get(environ, "XDG_SESSION_TYPE") = s_x11
    /\ {"xclip", "xsel", "wl-copy", "wl-paste"} \subseteq PATH
    /\ last.op = "copy_to_clipboard"
    /\ last.args = << <<233>> >>
    /\ Len(procs) = 1
    /\ procs[1].input = << <<195, 169>> >>
    /\ procs[1].outcome = "exit0"
    /\ last.value = TRUE

\* C10: the snapshot is computed once: whatever was called and however the
\* environment and PATH changed since, the global holds the PlatformInfo
\* constructed first, get_platform_info returns it, and its derived booleans
\* are those of its own display_server and desktop_env.
C10_SnapshotComputedOnce ==
    _platform_info # <<>> =>
        /\ _platform_info = first_info
        /\ last.op = "get_platform_info" => last.value = first_info[1]
        /\ self.is_wayland = (self.display_server = s_wayland)
        /\ self.is_x11 = (self.display_server = s_x11)
        /\ self.is_kde = contains(s_kde, lower(self.desktop_env))
        /\ self.is_gnome = contains(s_gnome, lower(self.desktop_env))

\* C10 witness: get_platform_info is called after the system changed, and
\* returns a snapshot that a fresh construction would not give
C10_Witness ==
    /\ last.op = "get_platform_info"
    /\ last.at > 0
    /\ last.value = first_info[1]
    /\ last.value # PlatformInfo(environ, PATH)

\* C11: nothing is retried: a copy, paste, type or shortcut call runs one
\* process at most, and a transcribe_audio call sends one request at most;
\* after a failure the negative result is returned with that one attempt made,
\* and no other installed tool is tried.
C11_NoRetries ==
    /\ last.op \in Operations =>
           /\ Len(procs) <= 1
           /\ (Len(procs) = 1 /\ procs[1].outcome # "exit0") =>
                  /\ last.raised = ""
                  /\ last.value = negative(last.op)
    /\ Len(http) <= 1
    /\ http = transcribed.http
    /\ (Len(http) = 1 /\ http[1].outcome # "ok") =>
           /\ transcribed.raised = ""
           /\ transcribed.value = <<>>

\* C11 witness: xclip, chosen on X11, exits non-zero while xsel and the Wayland
\* pair are installed too: one process ran, and the copy returned False
C11_Witness ==
    /\ last.op = "copy_to_clipboard"
    /\ self.display_server = s_x11
    /\ {"xclip", "xsel", "wl-copy", "wl-paste"} \subseteq PATH
    /\ Len(procs) = 1
    /\ procs[1].argv[1] = Lit("xclip")
    /\ procs[1].outcome = "CalledProcessError"
    /\ last.value = FALSE

====
